---- MODULE Spec2Model ----
(***************************************************************************)
(* Model of the GraphQL request form (GraphiForm.tsx): the form store of   *)
(* react-hook-form, the values captured by the last render, the browser    *)
(* URL, the request/schema fetches in flight and the React effects.        *)
(*                                                                         *)
(* Strings are sequences of code points.  `undefined` and `null` are the   *)
(* one-element sequences <<-1>> and <<-2>>, which no string equals.        *)
(***************************************************************************)
EXTENDS Integers, Sequences, FiniteSets, TLC

\* ------------------------------------------------------------------------
\* JavaScript values
\* ------------------------------------------------------------------------

\* the value `undefined`
Undef == << -1 >>

\* the value `null`
Null == << -2 >>

\* a JavaScript string (possibly empty), as opposed to undefined / null
IsString(v) == v # Undef /\ v # Null

\* truthiness of a string-or-undefined-or-null value (`a && b`, `a || b`, `a ? b : c`)
Truthy(v) == IsString(v) /\ Len(v) > 0

\* String(v): the text a template literal `${v}` or a DOMString argument gets
ToStr(v) ==
  IF v = Undef THEN << 117, 110, 100, 101, 102, 105, 110, 101, 100 >>   \* "undefined"
  ELSE IF v = Null THEN << 110, 117, 108, 108 >>                        \* "null"
  ELSE v

\* String.prototype.trim() leaves a non-empty string: some character is not white space
TrimNonEmpty(s) == \E i \in DOMAIN s : s[i] \notin {9, 10, 11, 12, 13, 32, 160}

\* String.prototype.indexOf(c, i), 1-based, 0 when absent (JavaScript's -1)
RECURSIVE IndexOf(_, _, _)
IndexOf(s, c, i) ==
  IF i > Len(s) THEN 0
  ELSE IF s[i] = c THEN i
  ELSE IndexOf(s, c, i + 1)

\* String.prototype.split(sep) for a one-character separator
RECURSIVE SplitOn(_, _)
SplitOn(s, sep) ==
  LET i == IndexOf(s, sep, 1)
  IN IF i = 0 THEN << s >>
     ELSE << SubSeq(s, 1, i - 1) >> \o SplitOn(SubSeq(s, i + 1, Len(s)), sep)

\* ------------------------------------------------------------------------
\* base64: btoa / atob
\* ------------------------------------------------------------------------

\* the character of a sextet in the standard alphabet A-Z a-z 0-9 + /
B64Char(n) ==
  IF n < 26 THEN 65 + n
  ELSE IF n < 52 THEN 97 + (n - 26)
  ELSE IF n < 62 THEN 48 + (n - 52)
  ELSE IF n = 62 THEN 43
  ELSE 47

\* the sextet of a character, -1 when the character is outside the alphabet
B64Val(c) ==
  IF c >= 65 /\ c <= 90 THEN c - 65
  ELSE IF c >= 97 /\ c <= 122 THEN c - 97 + 26
  ELSE IF c >= 48 /\ c <= 57 THEN c - 48 + 52
  ELSE IF c = 43 THEN 62
  ELSE IF c = 47 THEN 63
  ELSE -1

\* btoa throws InvalidCharacterError on a code point above U+00FF
BtoaThrows(s) == \E i \in DOMAIN s : s[i] > 255

RECURSIVE Btoa(_)
Btoa(s) ==
  IF Len(s) = 0 THEN << >>
  ELSE IF Len(s) = 1 THEN
    << B64Char(s[1] \div 4), B64Char((s[1] % 4) * 16), 61, 61 >>
  ELSE IF Len(s) = 2 THEN
    << B64Char(s[1] \div 4), B64Char((s[1] % 4) * 16 + (s[2] \div 16)),
       B64Char((s[2] % 16) * 4), 61 >>
  ELSE
    << B64Char(s[1] \div 4), B64Char((s[1] % 4) * 16 + (s[2] \div 16)),
       B64Char((s[2] % 16) * 4 + (s[3] \div 64)), B64Char(s[3] % 64) >>
    \o Btoa(SubSeq(s, 4, Len(s)))

\* const convertToBase64 = (url) => btoa(url): [ok, val]; ok = FALSE when btoa throws
convertToBase64(url) ==
  IF BtoaThrows(ToStr(url)) THEN [ok |-> FALSE, val |-> << >>]
  ELSE [ok |-> TRUE, val |-> Btoa(ToStr(url))]

\* atob, step 1: remove ASCII white space
RECURSIVE StripSpace(_)
StripSpace(t) ==
  IF Len(t) = 0 THEN << >>
  ELSE IF t[1] \in {9, 10, 12, 13, 32} THEN StripSpace(Tail(t))
  ELSE << t[1] >> \o StripSpace(Tail(t))

\* atob, step 2: when the length is a multiple of 4, drop one or two trailing '='
StripPad(t) ==
  IF Len(t) > 0 /\ Len(t) % 4 = 0 /\ t[Len(t)] = 61 THEN
    IF t[Len(t) - 1] = 61 THEN SubSeq(t, 1, Len(t) - 2) ELSE SubSeq(t, 1, Len(t) - 1)
  ELSE t

\* atob, step 4: the bytes of a sequence of alphabet characters, leftover bits discarded
RECURSIVE AtobBytes(_)
AtobBytes(t) ==
  IF Len(t) < 2 THEN << >>
  ELSE IF Len(t) = 2 THEN
    << B64Val(t[1]) * 4 + (B64Val(t[2]) \div 16) >>
  ELSE IF Len(t) = 3 THEN
    << B64Val(t[1]) * 4 + (B64Val(t[2]) \div 16),
       (B64Val(t[2]) % 16) * 16 + (B64Val(t[3]) \div 4) >>
  ELSE
    << B64Val(t[1]) * 4 + (B64Val(t[2]) \div 16),
       (B64Val(t[2]) % 16) * 16 + (B64Val(t[3]) \div 4),
       (B64Val(t[3]) % 4) * 64 + B64Val(t[4]) >>
    \o AtobBytes(SubSeq(t, 5, Len(t)))

\* const convertFromBase64 = (base64) => atob(base64): [ok, val]; ok = FALSE when
\* atob throws InvalidCharacterError (length 1 mod 4, or a character outside the alphabet)
convertFromBase64(base64) ==
  LET t == StripPad(StripSpace(ToStr(base64)))
  IN IF Len(t) % 4 = 1 \/ (\E i \in DOMAIN t : B64Val(t[i]) = -1)
     THEN [ok |-> FALSE, val |-> << >>]
     ELSE [ok |-> TRUE, val |-> AtobBytes(t)]

\* ------------------------------------------------------------------------
\* JSON.stringify / JSON.parse
\* The input alphabet of the model has no control characters and no lone
\* surrogates, so the only characters JSON.stringify escapes are " and \.
\* ------------------------------------------------------------------------

\* the body of a quoted JSON string: " and \ get a backslash
RECURSIVE JsonEscape(_)
JsonEscape(s) ==
  IF Len(s) = 0 THEN << >>
  ELSE IF s[1] \in {34, 92} THEN << 92, s[1] >> \o JsonEscape(Tail(s))
  ELSE << s[1] >> \o JsonEscape(Tail(s))

\* JSON.stringify of a string
JsonQuote(s) == << 34 >> \o JsonEscape(s) \o << 34 >>

\* JSON.stringify({ query: q, variables: v }) for strings q and v
\*   {"query":<q>,"variables":<v>}
JsonStringifyBody(q, v) ==
  << 123, 34, 113, 117, 101, 114, 121, 34, 58 >> \o JsonQuote(q)
  \o << 44, 34, 118, 97, 114, 105, 97, 98, 108, 101, 115, 34, 58 >> \o JsonQuote(v)
  \o << 125 >>

\* the parse failure (SyntaxError)
JsonFail == [ok |-> FALSE, next |-> 0, val |-> [kind |-> "none"]]

\* the position of the first character at or after i that is not JSON white space
RECURSIVE SkipWs(_, _)
SkipWs(t, i) ==
  IF i <= Len(t) /\ t[i] \in {9, 10, 13, 32} THEN SkipWs(t, i + 1) ELSE i

\* the value of a hexadecimal digit, -1 otherwise
HexVal(c) ==
  IF c >= 48 /\ c <= 57 THEN c - 48
  ELSE IF c >= 65 /\ c <= 70 THEN c - 55
  ELSE IF c >= 97 /\ c <= 102 THEN c - 87
  ELSE -1

\* the character a one-letter escape stands for, -1 when it is not an escape
JsonUnescape(c) ==
  CASE c = 34 -> 34 [] c = 92 -> 92 [] c = 47 -> 47 [] c = 98 -> 8 [] c = 102 -> 12
    [] c = 110 -> 10 [] c = 114 -> 13 [] c = 116 -> 9 [] OTHER -> -1

\* the characters of a JSON string from position i (after the opening quote) to the
\* closing quote: [ok, next, val], next being the position after the closing quote
RECURSIVE JsonStringChars(_, _, _)
JsonStringChars(t, i, acc) ==
  IF i > Len(t) THEN JsonFail
  ELSE IF t[i] = 34 THEN [ok |-> TRUE, next |-> i + 1, val |-> [kind |-> "string", str |-> acc]]
  ELSE IF t[i] < 32 THEN JsonFail
  ELSE IF t[i] = 92 THEN
    IF i + 1 > Len(t) THEN JsonFail
    ELSE IF t[i + 1] = 117 THEN
      IF i + 5 > Len(t) \/ (\E k \in 2..5 : HexVal(t[i + k]) = -1) THEN JsonFail
      ELSE JsonStringChars(t, i + 6,
             Append(acc, HexVal(t[i + 2]) * 4096 + HexVal(t[i + 3]) * 256
                         + HexVal(t[i + 4]) * 16 + HexVal(t[i + 5])))
    ELSE IF JsonUnescape(t[i + 1]) = -1 THEN JsonFail
    ELSE JsonStringChars(t, i + 2, Append(acc, JsonUnescape(t[i + 1])))
  ELSE JsonStringChars(t, i + 1, Append(acc, t[i]))

\* the position after the digits that start at i
RECURSIVE SkipDigits(_, _)
SkipDigits(t, i) ==
  IF i <= Len(t) /\ t[i] >= 48 /\ t[i] <= 57 THEN SkipDigits(t, i + 1) ELSE i

\* t has the characters of word at position i
HasWord(t, i, word) ==
  /\ i + Len(word) - 1 <= Len(t)
  /\ \A k \in DOMAIN word : t[i + k - 1] = word[k]

\* JSON.parse, restricted to strings, null, true, false, non-negative integers and
\* objects of these (arrays, fractions, exponents and signs are read as a SyntaxError;
\* no text of the model uses them)
RECURSIVE JsonValue(_, _), JsonMembers(_, _, _)
JsonValue(t, i0) ==
  LET i == SkipWs(t, i0)
  IN IF i > Len(t) THEN JsonFail
     ELSE IF t[i] = 34 THEN JsonStringChars(t, i + 1, << >>)
     ELSE IF HasWord(t, i, << 110, 117, 108, 108 >>) THEN
       [ok |-> TRUE, next |-> i + 4, val |-> [kind |-> "null"]]
     ELSE IF HasWord(t, i, << 116, 114, 117, 101 >>) THEN
       [ok |-> TRUE, next |-> i + 4, val |-> [kind |-> "bool"]]
     ELSE IF HasWord(t, i, << 102, 97, 108, 115, 101 >>) THEN
       [ok |-> TRUE, next |-> i + 5, val |-> [kind |-> "bool"]]
     ELSE IF t[i] = 48 THEN
       [ok |-> TRUE, next |-> i + 1, val |-> [kind |-> "number"]]
     ELSE IF t[i] >= 49 /\ t[i] <= 57 THEN
       [ok |-> TRUE, next |-> SkipDigits(t, i), val |-> [kind |-> "number"]]
     ELSE IF t[i] = 123 THEN
       LET j == SkipWs(t, i + 1)
       IN IF j <= Len(t) /\ t[j] = 125
          THEN [ok |-> TRUE, next |-> j + 1, val |-> [kind |-> "object", members |-> << >>]]
          ELSE JsonMembers(t, j, << >>)
     ELSE JsonFail

\* the members of an object from position i (a member name is expected there)
JsonMembers(t, i0, acc) ==
  LET i == SkipWs(t, i0)
  IN IF i > Len(t) \/ t[i] # 34 THEN JsonFail
     ELSE
       LET name == JsonStringChars(t, i + 1, << >>)
       IN IF ~name.ok THEN JsonFail
          ELSE
            LET c == SkipWs(t, name.next)
            IN IF c > Len(t) \/ t[c] # 58 THEN JsonFail
               ELSE
                 LET v == JsonValue(t, c + 1)
                 IN IF ~v.ok THEN JsonFail
                    ELSE
                      LET e == SkipWs(t, v.next)
                          acc2 == Append(acc, [key |-> name.val.str, val |-> v.val])
                      IN IF e > Len(t) THEN JsonFail
                         ELSE IF t[e] = 125 THEN
                           [ok |-> TRUE, next |-> e + 1,
                            val |-> [kind |-> "object", members |-> acc2]]
                         ELSE IF t[e] = 44 THEN JsonMembers(t, e + 1, acc2)
                         ELSE JsonFail

\* JSON.parse(text): [ok, val]; ok = FALSE when it throws SyntaxError
JsonParse(text) ==
  LET t == ToStr(text)
      r == JsonValue(t, 1)
  IN IF r.ok /\ SkipWs(t, r.next) > Len(t)
     THEN [ok |-> TRUE, val |-> r.val]
     ELSE [ok |-> FALSE, val |-> [kind |-> "none"]]

\* obj.name throws TypeError: obj is null
PropertyThrows(obj) == obj.kind = "null"

\* obj.name for a parsed JSON value that is not null: the last member of that name of
\* an object, undefined for a missing member and for a string, number or boolean.
\* (Member values of the model's texts are strings or null.)
RECURSIVE LastMember(_, _, _)
LastMember(members, name, found) ==
  IF Len(members) = 0 THEN found
  ELSE LastMember(Tail(members), name,
         IF members[1].key = name
         THEN (CASE members[1].val.kind = "string" -> members[1].val.str
                 [] members[1].val.kind = "null" -> Null)
         ELSE found)

Property(obj, name) ==
  IF obj.kind = "object" THEN LastMember(obj.members, name, Undef) ELSE Undef

\* ------------------------------------------------------------------------
\* encodeURIComponent / URLSearchParams
\* ------------------------------------------------------------------------

\* the characters encodeURIComponent leaves alone: A-Z a-z 0-9 - _ . ! ~ * ' ( )
UriUnreserved(c) ==
  \/ c >= 65 /\ c <= 90
  \/ c >= 97 /\ c <= 122
  \/ c >= 48 /\ c <= 57
  \/ c \in {45, 95, 46, 33, 126, 42, 39, 40, 41}

\* the UTF-8 bytes of a code point below U+10000 (no surrogate is in the input alphabet)
Utf8(c) ==
  IF c < 128 THEN << c >>
  ELSE IF c < 2048 THEN << 192 + (c \div 64), 128 + (c % 64) >>
  ELSE << 224 + (c \div 4096), 128 + ((c \div 64) % 64), 128 + (c % 64) >>

\* an upper-case hexadecimal digit
HexDigit(n) == IF n < 10 THEN 48 + n ELSE 55 + n

\* %XX for every byte
RECURSIVE PercentBytes(_)
PercentBytes(bytes) ==
  IF Len(bytes) = 0 THEN << >>
  ELSE << 37, HexDigit(bytes[1] \div 16), HexDigit(bytes[1] % 16) >>
       \o PercentBytes(Tail(bytes))

RECURSIVE encodeURIComponent(_)
encodeURIComponent(s) ==
  IF Len(s) = 0 THEN << >>
  ELSE (IF UriUnreserved(s[1]) THEN << s[1] >> ELSE PercentBytes(Utf8(s[1])))
       \o encodeURIComponent(Tail(s))

\* form-urlencoded parsing of a name or value: '+' is a space, %XX is a byte
RECURSIVE PercentDecode(_)
PercentDecode(s) ==
  IF Len(s) = 0 THEN << >>
  ELSE IF s[1] = 43 THEN << 32 >> \o PercentDecode(Tail(s))
  ELSE IF s[1] = 37 /\ Len(s) >= 3 /\ HexVal(s[2]) # -1 /\ HexVal(s[3]) # -1 THEN
    << HexVal(s[2]) * 16 + HexVal(s[3]) >> \o PercentDecode(SubSeq(s, 4, Len(s)))
  ELSE << s[1] >> \o PercentDecode(Tail(s))

\* UTF-8 decoding of bytes; a byte that starts no well-formed sequence becomes U+FFFD
RECURSIVE Utf8Decode(_)
Utf8Decode(b) ==
  LET Cont(k) == k <= Len(b) /\ b[k] >= 128 /\ b[k] <= 191
  IN IF Len(b) = 0 THEN << >>
     ELSE IF b[1] < 128 THEN << b[1] >> \o Utf8Decode(Tail(b))
     ELSE IF b[1] >= 194 /\ b[1] <= 223 /\ Cont(2) THEN
       << (b[1] - 192) * 64 + (b[2] - 128) >> \o Utf8Decode(SubSeq(b, 3, Len(b)))
     ELSE IF b[1] >= 224 /\ b[1] <= 239 /\ Cont(2) /\ Cont(3) THEN
       << (b[1] - 224) * 4096 + (b[2] - 128) * 64 + (b[3] - 128) >>
       \o Utf8Decode(SubSeq(b, 4, Len(b)))
     ELSE << 65533 >> \o Utf8Decode(Tail(b))

\* one name=value piece of a query string: split at the first '='
SearchPair(piece) ==
  LET i == IndexOf(piece, 61, 1)
      name == IF i = 0 THEN piece ELSE SubSeq(piece, 1, i - 1)
      value == IF i = 0 THEN << >> ELSE SubSeq(piece, i + 1, Len(piece))
  IN [key |-> Utf8Decode(PercentDecode(name)), value |-> Utf8Decode(PercentDecode(value))]

\* the pairs of the non-empty pieces, in order
RECURSIVE SearchPairs(_)
SearchPairs(pieces) ==
  IF Len(pieces) = 0 THEN << >>
  ELSE (IF Len(pieces[1]) = 0 THEN << >> ELSE << SearchPair(pieces[1]) >>)
       \o SearchPairs(Tail(pieces))

\* new URL(href).searchParams: the name/value pairs of the query string (without '?'),
\* in the order searchParams.forEach visits them
searchParams(search) == SearchPairs(SplitOn(search, 38))

\* ------------------------------------------------------------------------
\* Bounds and inputs
\* ------------------------------------------------------------------------

\* user events (edits, header row actions, submissions) of one page view
MaxUserEvents == 2

\* rows the header list can grow to by handleAddHeader
MaxHeaders == 2

\* submissions in flight at once
MaxPending == 1

\* schema fetches in flight at once
MaxSdlPending == 2

\* "ab", "ab?", "q", "ж", "{}", "x", "s", "A", "B", "1", "2", "&=", " " as code points
str_ab == << 97, 98 >>
str_abq == << 97, 98, 63 >>
str_q == << 113 >>
str_zhe == << 1078 >>
str_braces == << 123, 125 >>
str_x == << 120 >>
str_s == << 115 >>
str_A == << 65 >>
str_B == << 66 >>
str_1 == << 49 >>
str_2 == << 50 >>
str_amp == << 38, 61 >>
str_space == << 32 >>

\* what the user types into the endpoint, SDL, query and variables fields
EndpointInputs == { << >>, str_ab }
SdlInputs == { << >>, str_s }
QueryInputs == { << >>, str_q, str_zhe }
VariablesInputs == { str_braces, str_zhe }

\* what the user types into a header row
HeaderInputs ==
  { [key |-> str_A, value |-> str_1], [key |-> str_space, value |-> str_2] }

\* what a server answers: status codes, parsed JSON bodies, schema texts
Statuses == { 200, 404 }
Bodies == { "body" }
SchemaTexts == { "schema" }

\* what a rejected promise carries: an instance of Error, or a value that is not one
Thrown == { "Error", "other" }

\* ------------------------------------------------------------------------
\* State
\* ------------------------------------------------------------------------

VARIABLES
  form,        \* react-hook-form's store: endpoint, sdlEndpoint, query, variables, headers
  watched,     \* what the last render read: endpointValue, queryValue, variablesValue,
               \* headersValue and the effective sdlEndpoint
  response,    \* useState response
  status,      \* useState status
  schema,      \* useState schema
  sdlError,    \* useState sdlError
  url,         \* window.location: [marker, tail, search]
  pending,     \* handleFormSubmit calls suspended at an await, oldest first
  sdlPending,  \* fetchSDL calls suspended at an await, oldest first
  settled,     \* the promise whose settling resumed the last step, if that step was the
               \* continuation of an await
  uncaught,    \* the last step ended with an exception that nothing caught
  pc,          \* "mounting": first render done, effects not yet run; "ready"; "crashed"
  events       \* user events so far

vars == << form, watched, response, status, schema, sdlError, url, pending, sdlPending,
           settled, uncaught, pc, events >>

\* useState<number | null>(null): the status before any submission finished
NoStatus == -1

\* no await was resumed by the last step
NoSettle == [await |-> "none", outcome |-> "none", status |-> NoStatus, value |-> ""]

\* useState<ResponseData>(null)
NoResponse == [kind |-> "null", text |-> ""]

\* { error: "Request failed" }
RequestFailed == [kind |-> "error", text |-> "Request failed"]

\* useState<string | null>(null) of schema and sdlError
NoText == "null"

\* "?sdl"
SdlSuffix == << 63, 115, 100, 108 >>

\* useForm({ defaultValues: { headers: [{ key: "", value: "" }] } })
defaultValues ==
  [endpoint |-> Undef, sdlEndpoint |-> Undef, query |-> Undef, variables |-> Undef,
   headers |-> << [key |-> << >>, value |-> << >>] >>]

\* the watch(...) calls of a render, and
\*   const sdlEndpoint = watch("sdlEndpoint") || `${endpointValue}?sdl`
Watch(f) ==
  [endpointValue |-> f.endpoint,
   queryValue |-> f.query,
   variablesValue |-> f.variables,
   headersValue |-> f.headers,
   sdlEndpoint |-> IF Truthy(f.sdlEndpoint) THEN f.sdlEndpoint
                   ELSE ToStr(f.endpoint) \o SdlSuffix]

\* ------------------------------------------------------------------------
\* Encoding the form into a URL (handleEncodeURL)
\* ------------------------------------------------------------------------

\* headersValue.map(key && value ? `${enc(key)}=${enc(value)}` : "").filter(Boolean)
RECURSIVE HeaderParamList(_)
HeaderParamList(hs) ==
  IF Len(hs) = 0 THEN << >>
  ELSE (IF Truthy(hs[1].key) /\ Truthy(hs[1].value)
        THEN << encodeURIComponent(hs[1].key) \o << 61 >> \o encodeURIComponent(hs[1].value) >>
        ELSE << >>)
       \o HeaderParamList(Tail(hs))

\* Array.prototype.join("&")
RECURSIVE JoinAmp(_)
JoinAmp(parts) ==
  IF Len(parts) = 0 THEN << >>
  ELSE IF Len(parts) = 1 THEN parts[1]
  ELSE parts[1] \o << 38 >> \o JoinAmp(Tail(parts))

headerParams(hs) == JoinAmp(HeaderParamList(hs))

\* one of the two btoa calls of handleEncodeURL throws
EncodeThrows(w) ==
  \/ ~convertToBase64(w.endpointValue).ok
  \/ ~convertToBase64(JsonStringifyBody(w.queryValue,
        IF Truthy(w.variablesValue) THEN w.variablesValue ELSE str_braces)).ok

\* newUrl = `/GRAPHQL/${encodedEndpoint}/${encodedBody}${headerParams ? `?${headerParams}` : ""}`
\* as the location it leads to: the path has the marker /GRAPHQL/, tail is the path
\* after it, search is the query string after '?'
newUrl(w) ==
  [marker |-> TRUE,
   tail |-> convertToBase64(w.endpointValue).val \o << 47 >>
            \o convertToBase64(JsonStringifyBody(w.queryValue,
                 IF Truthy(w.variablesValue) THEN w.variablesValue ELSE str_braces)).val,
   search |-> headerParams(w.headersValue)]

\* variant of EncodeGuard: handleEncodeURL without its test of the two fields
EncodeGuardAlways(w) == TRUE

\* if (endpointValue && queryValue)
EncodeGuard(w) == Truthy(w.endpointValue) /\ Truthy(w.queryValue)

\* ------------------------------------------------------------------------
\* Effects
\* ------------------------------------------------------------------------

\* variant of SdlFetchGuard: the comparison with "?sdl" is missing
SdlFetchGuardNoSuffix(sdl) ==
  /\ Truthy(sdl)
  /\ sdl # ToStr(Undef) \o SdlSuffix

\* the guard of the schema fetch effect
SdlFetchGuard(sdl) ==
  /\ Truthy(sdl)
  /\ sdl # ToStr(Undef) \o SdlSuffix
  /\ sdl # SdlSuffix

\* useEffect(() => { if (...) fetchSDL(sdlEndpoint) }, [sdlEndpoint]): the calls of
\* fetchSDL in flight after the effect ran; fetchSDL runs up to its first await.
\* latest tells the call issued last from the earlier ones; the component keeps no
\* such mark, a call knows only its own url
SdlFetchEffect(sdl, inflight) ==
  IF SdlFetchGuard(sdl)
  THEN Append([k \in DOMAIN inflight |-> [inflight[k] EXCEPT !.latest = FALSE]],
              [stage |-> "fetch", endpoint |-> sdl, latest |-> TRUE])
  ELSE inflight

\* variant of SdlDeriveEffect: the effect writes the derived text into the endpoint
\* field, the field it depends on
SdlDeriveIntoEndpoint(endpointValue, f) ==
  [f EXCEPT !.endpoint =
     IF Truthy(endpointValue) THEN endpointValue \o SdlSuffix ELSE << >>]

\* useEffect(() => setValue("sdlEndpoint", endpointValue ? `${endpointValue}?sdl` : ""),
\*           [endpointValue, setValue])
SdlDeriveEffect(endpointValue, f) ==
  [f EXCEPT !.sdlEndpoint =
     IF Truthy(endpointValue) THEN endpointValue \o SdlSuffix ELSE << >>]

\* useFieldArray's update(index, value) and append(value) on the live list
update(list, index, value) == [list EXCEPT ![index] = value]
append(list, value) == Append(list, value)

\* useFieldArray's remove(index)
remove(list, index) == SubSeq(list, 1, index - 1) \o SubSeq(list, index + 1, Len(list))

\* headers.findIndex((header) => header.key === key) from row i on, 1-based, 0 when
\* absent (JavaScript's -1)
RECURSIVE findIndex(_, _, _)
findIndex(hs, key, i) ==
  IF i > Len(hs) THEN 0
  ELSE IF hs[i].key = key THEN i
  ELSE findIndex(hs, key, i + 1)

\* variant of ReconcileHeaders: findIndex looks at the live list, so a pair whose key an
\* earlier pair appended updates that row
RECURSIVE ReconcileHeadersLive(_, _, _)
ReconcileHeadersLive(headersValue, live, pairs) ==
  IF Len(pairs) = 0 THEN live
  ELSE
    LET index == findIndex(live, pairs[1].key, 1)
    IN ReconcileHeadersLive(headersValue,
         IF index > 0 THEN update(live, index, pairs[1]) ELSE append(live, pairs[1]),
         Tail(pairs))

\* variant of ReconcileHeaders: the list is replaced by the pairs of the URL
ReconcileHeadersReplace(headersValue, live, pairs) == pairs

\* searchParams.forEach((value, key) => { findIndex on headersValue; update or append }):
\* headersValue is the list the first render captured, update/append act on the live list
RECURSIVE ReconcileHeaders(_, _, _)
ReconcileHeaders(headersValue, live, pairs) ==
  IF Len(pairs) = 0 THEN live
  ELSE
    LET index == findIndex(headersValue, pairs[1].key, 1)
    IN ReconcileHeaders(headersValue,
         IF index > 0 THEN update(live, index, pairs[1]) ELSE append(live, pairs[1]),
         Tail(pairs))

\* "query", "variables"
name_query == << 113, 117, 101, 114, 121 >>
name_variables == << 118, 97, 114, 105, 97, 98, 108, 101, 115 >>

\* the decode effect (useEffect(..., [])): [form, threw]; the statements before a throw
\* have taken effect
DecodeEffect(location, headersValue, f) ==
  IF ~location.marker THEN [form |-> f, threw |-> FALSE]
  ELSE
    LET parts == SplitOn(location.tail, 47)
        encodedEndpoint == parts[1]
        encodedBody == IF Len(parts) >= 2 THEN parts[2] ELSE Undef
        decodedEndpoint == convertFromBase64(encodedEndpoint)
        decodedBody == convertFromBase64(encodedBody)
        bodyObject == JsonParse(decodedBody.val)
        f1 == [f EXCEPT !.endpoint = decodedEndpoint.val]
    IN IF ~decodedEndpoint.ok \/ ~decodedBody.ok \/ ~bodyObject.ok
       THEN [form |-> f, threw |-> TRUE]
       ELSE IF PropertyThrows(bodyObject.val)
       THEN [form |-> f1, threw |-> TRUE]
       ELSE [form |-> [f1 EXCEPT
                         !.query = Property(bodyObject.val, name_query),
                         !.variables = Property(bodyObject.val, name_variables),
                         !.headers = ReconcileHeaders(headersValue, f1.headers,
                                                      searchParams(location.search))],
             threw |-> FALSE]

\* ------------------------------------------------------------------------
\* The page a view starts at
\* ------------------------------------------------------------------------

\* request states whose committed URL is opened as a shared link: one with two rows
\* of the same key and the characters & and = in a value, one whose endpoint ends in
\* '?', one whose variables are not JSON
SharedStates ==
  { [endpointValue |-> str_ab, queryValue |-> str_q, variablesValue |-> str_braces,
     headersValue |-> << [key |-> str_A, value |-> str_1],
                         [key |-> str_A, value |-> str_amp] >>],
    [endpointValue |-> str_abq, queryValue |-> str_q, variablesValue |-> str_braces,
     headersValue |-> << [key |-> str_A, value |-> str_1] >>],
    [endpointValue |-> str_ab, queryValue |-> str_q, variablesValue |-> str_x,
     headersValue |-> defaultValues.headers] }

\* hand-written locations: the page without a request in its path, and paths after
\* /GRAPHQL/ that no commit produced
\*   "!!!/e30="           endpoint segment is not base64
\*   "YWI="               no body segment
\*   "YWI=/eA=="          body is base64 of "x", not JSON
\*   "YWI=/bnVsbA=="      body is base64 of "null"
\*   "YWI=/e30="          body is base64 of "{}", an object without query
\*   "YWI=/e30=?=2&B=1"   the same, with a query string that has an empty name
PlainPage == [marker |-> FALSE, tail |-> << >>, search |-> << >>]
CraftedUrls ==
  { [marker |-> TRUE, tail |-> << 33, 33, 33, 47, 101, 51, 48, 61 >>, search |-> << >>],
    [marker |-> TRUE, tail |-> << 89, 87, 73, 61 >>, search |-> << >>],
    [marker |-> TRUE, tail |-> << 89, 87, 73, 61, 47, 101, 65, 61, 61 >>, search |-> << >>],
    [marker |-> TRUE, tail |-> << 89, 87, 73, 61, 47, 98, 110, 86, 115, 98, 65, 61, 61 >>,
     search |-> << >>],
    [marker |-> TRUE, tail |-> << 89, 87, 73, 61, 47, 101, 51, 48, 61 >>, search |-> << >>],
    [marker |-> TRUE, tail |-> << 89, 87, 73, 61, 47, 101, 51, 48, 61 >>,
     search |-> << 61, 50, 38, 66, 61, 49 >>] }

InitialUrls == { PlainPage } \cup { newUrl(s) : s \in SharedStates } \cup CraftedUrls

\* the component after its first render, before its effects ran
Init ==
  /\ form = defaultValues
  /\ watched = Watch(defaultValues)
  /\ response = NoResponse
  /\ status = NoStatus
  /\ schema = NoText
  /\ sdlError = NoText
  /\ url \in InitialUrls
  /\ pending = << >>
  /\ sdlPending = << >>
  /\ settled = NoSettle
  /\ uncaught = FALSE
  /\ pc = "mounting"
  /\ events = 0

\* ------------------------------------------------------------------------
\* Effects of the first render, and re-renders
\* ------------------------------------------------------------------------

\* the three effects of the first render, in the order of their useEffect calls; an
\* exception thrown by an effect is not caught: React unmounts the tree
MountEffects ==
  /\ pc = "mounting"
  /\ LET f1 == SdlDeriveEffect(watched.endpointValue, form)
         d == DecodeEffect(url, watched.headersValue, f1)
     IN /\ sdlPending' = SdlFetchEffect(watched.sdlEndpoint, sdlPending)
        /\ form' = d.form
        /\ pc' = IF d.threw THEN "crashed" ELSE "ready"
        /\ uncaught' = d.threw
  /\ settled' = NoSettle
  /\ UNCHANGED << watched, response, status, schema, sdlError, url, pending, events >>

\* variant of Render: the decode effect has no dependency list and runs after every
\* render
RenderAndDecode ==
  /\ pc = "ready"
  /\ Watch(form) # watched
  /\ LET w == Watch(form)
         f1 == IF w.endpointValue # watched.endpointValue
               THEN SdlDeriveEffect(w.endpointValue, form)
               ELSE form
         d == DecodeEffect(url, w.headersValue, f1)
     IN /\ watched' = w
        /\ sdlPending' = IF w.sdlEndpoint # watched.sdlEndpoint
                         THEN SdlFetchEffect(w.sdlEndpoint, sdlPending)
                         ELSE sdlPending
        /\ form' = d.form
        /\ pc' = IF d.threw THEN "crashed" ELSE "ready"
        /\ uncaught' = d.threw
  /\ settled' = NoSettle
  /\ UNCHANGED << response, status, schema, sdlError, url, pending, events >>

\* a re-render after the form store changed, with the effects whose dependency changed
Render ==
  /\ pc = "ready"
  /\ Watch(form) # watched
  /\ LET w == Watch(form)
     IN /\ watched' = w
        /\ sdlPending' = IF w.sdlEndpoint # watched.sdlEndpoint
                         THEN SdlFetchEffect(w.sdlEndpoint, sdlPending)
                         ELSE sdlPending
        /\ form' = IF w.endpointValue # watched.endpointValue
                   THEN SdlDeriveEffect(w.endpointValue, form)
                   ELSE form
  /\ settled' = NoSettle
  /\ uncaught' = FALSE
  /\ UNCHANGED << response, status, schema, sdlError, url, pending, pc, events >>

\* ------------------------------------------------------------------------
\* User events
\* ------------------------------------------------------------------------

\* the user can act: the page is up and the last event's re-renders are done
Idle == pc = "ready" /\ Watch(form) = watched /\ events < MaxUserEvents

\* a change event of a text input: the new text differs from the old, and an input
\* that shows nothing (undefined or "") cannot change to ""
CanType(old, v) == v # old /\ (Truthy(v) \/ Truthy(old))

\* an edit that can change the effective SDL endpoint waits for a free fetch slot
SdlSlot == Len(sdlPending) < MaxSdlPending

TypeEndpoint(v) ==
  /\ Idle /\ SdlSlot
  /\ CanType(form.endpoint, v)
  /\ form' = [form EXCEPT !.endpoint = v]
  /\ events' = events + 1
  /\ settled' = NoSettle
  /\ uncaught' = FALSE
  /\ UNCHANGED << watched, response, status, schema, sdlError, url, pending, sdlPending, pc >>

TypeSdl(v) ==
  /\ Idle /\ SdlSlot
  /\ CanType(form.sdlEndpoint, v)
  /\ form' = [form EXCEPT !.sdlEndpoint = v]
  /\ events' = events + 1
  /\ settled' = NoSettle
  /\ uncaught' = FALSE
  /\ UNCHANGED << watched, response, status, schema, sdlError, url, pending, sdlPending, pc >>

\* variant of TypeQuery: the change handler also encodes the new form into the URL
TypeQueryAndEncode(v) ==
  /\ Idle
  /\ CanType(form.query, v)
  /\ form' = [form EXCEPT !.query = v]
  /\ url' = IF EncodeGuard(Watch(form')) /\ ~EncodeThrows(Watch(form'))
            THEN newUrl(Watch(form')) ELSE url
  /\ events' = events + 1
  /\ settled' = NoSettle
  /\ uncaught' = FALSE
  /\ UNCHANGED << watched, response, status, schema, sdlError, pending, sdlPending, pc >>

\* a change event of the query textarea
TypeQuery(v) ==
  /\ Idle
  /\ CanType(form.query, v)
  /\ form' = [form EXCEPT !.query = v]
  /\ events' = events + 1
  /\ settled' = NoSettle
  /\ uncaught' = FALSE
  /\ UNCHANGED << watched, response, status, schema, sdlError, url, pending, sdlPending, pc >>

TypeVariables(v) ==
  /\ Idle
  /\ CanType(form.variables, v)
  /\ form' = [form EXCEPT !.variables = v]
  /\ events' = events + 1
  /\ settled' = NoSettle
  /\ uncaught' = FALSE
  /\ UNCHANGED << watched, response, status, schema, sdlError, url, pending, sdlPending, pc >>

\* the user fills in the key and value inputs of row i
TypeHeader(i, pair) ==
  /\ Idle
  /\ i \in DOMAIN form.headers
  /\ pair # form.headers[i]
  /\ form' = [form EXCEPT !.headers = update(form.headers, i, pair)]
  /\ events' = events + 1
  /\ settled' = NoSettle
  /\ uncaught' = FALSE
  /\ UNCHANGED << watched, response, status, schema, sdlError, url, pending, sdlPending, pc >>

handleAddHeader ==
  /\ Idle
  /\ Len(form.headers) < MaxHeaders
  /\ form' = [form EXCEPT !.headers = append(form.headers, [key |-> << >>, value |-> << >>])]
  /\ events' = events + 1
  /\ settled' = NoSettle
  /\ uncaught' = FALSE
  /\ UNCHANGED << watched, response, status, schema, sdlError, url, pending, sdlPending, pc >>

handleRemoveHeader(index) ==
  /\ Idle
  /\ index \in DOMAIN form.headers
  /\ form' = [form EXCEPT !.headers = remove(form.headers, index)]
  /\ events' = events + 1
  /\ settled' = NoSettle
  /\ uncaught' = FALSE
  /\ UNCHANGED << watched, response, status, schema, sdlError, url, pending, sdlPending, pc >>

\* blur of the endpoint, query or variables field, or handleApplyHeader: the handler of
\* the last render runs, also when the effects of the first render are still to come.
\* A throwing btoa ends the handler before router.push.
handleEncodeURL ==
  /\ pc \in {"mounting", "ready"}
  /\ url' = IF EncodeGuard(watched) /\ ~EncodeThrows(watched) THEN newUrl(watched) ELSE url
  /\ settled' = NoSettle
  /\ uncaught' = (EncodeGuard(watched) /\ EncodeThrows(watched))
  /\ UNCHANGED << form, watched, response, status, schema, sdlError, pending, sdlPending,
                  pc, events >>

\* ------------------------------------------------------------------------
\* Submission (handleSubmit(handleFormSubmit))
\* ------------------------------------------------------------------------

\* variant of Valid: the query textarea is registered without required
ValidEndpointOnly(f) == Truthy(f.endpoint)

\* register(..., { required: true }) on endpoint and query
Valid(f) == Truthy(f.endpoint) /\ Truthy(f.query)

\* headers.reduce(...): the pairs of the rows whose trimmed key and value are not
\* empty; a later row of the same key replaces the earlier one
headersObject(hs) ==
  { [key |-> hs[i].key, value |-> hs[i].value] :
      i \in { j \in DOMAIN hs :
                /\ TrimNonEmpty(hs[j].key) /\ TrimNonEmpty(hs[j].value)
                /\ \A k \in DOMAIN hs :
                     (k > j /\ hs[k].key = hs[j].key)
                       => ~(TrimNonEmpty(hs[k].key) /\ TrimNonEmpty(hs[k].value)) } }

\* the catch block of handleFormSubmit
SubmitCatch(thrown) ==
  /\ response' = IF thrown = "Error" THEN RequestFailed ELSE response
  /\ status' = 500

\* the submit button: validation, then handleFormSubmit up to its first await
\* (JSON.parse of the variables throws a SyntaxError before fetch is called)
handleFormSubmit ==
  /\ Idle
  /\ Len(pending) < MaxPending
  /\ events' = events + 1
  /\ IF ~Valid(form) THEN UNCHANGED << response, status, pending >>
     ELSE IF Truthy(form.variables) /\ ~JsonParse(form.variables).ok
     THEN SubmitCatch("Error") /\ UNCHANGED pending
     ELSE /\ pending' = Append(pending,
               [stage |-> "fetch", status |-> NoStatus, endpoint |-> form.endpoint,
                query |-> form.query,
                variables |-> IF Truthy(form.variables) THEN JsonParse(form.variables).val
                              ELSE [kind |-> "object", members |-> << >>],
                headers |-> headersObject(form.headers)])
          /\ UNCHANGED << response, status >>
  /\ settled' = NoSettle
  /\ uncaught' = FALSE
  /\ UNCHANGED << form, watched, schema, sdlError, url, sdlPending, pc >>

\* await fetch(...) resolves with a response of some status
FetchResolve(i, code) ==
  /\ i \in DOMAIN pending
  /\ pending[i].stage = "fetch"
  /\ pending' = [pending EXCEPT ![i].stage = "json", ![i].status = code]
  /\ settled' = [await |-> "fetch", outcome |-> "resolved", status |-> code, value |-> ""]
  /\ uncaught' = FALSE
  /\ UNCHANGED << form, watched, response, status, schema, sdlError, url, sdlPending, pc,
                  events >>

\* await fetch(...) rejects
FetchReject(i, thrown) ==
  /\ i \in DOMAIN pending
  /\ pending[i].stage = "fetch"
  /\ pending' = remove(pending, i)
  /\ SubmitCatch(thrown)
  /\ settled' = [await |-> "fetch", outcome |-> "rejected", status |-> NoStatus, value |-> thrown]
  /\ uncaught' = FALSE
  /\ UNCHANGED << form, watched, schema, sdlError, url, sdlPending, pc, events >>

\* variant of JsonResolve: a status of 400 or more is reported as the failure result
JsonResolveOkOnly(i, body) ==
  /\ i \in DOMAIN pending
  /\ pending[i].stage = "json"
  /\ pending' = remove(pending, i)
  /\ status' = IF pending[i].status >= 400 THEN 500 ELSE pending[i].status
  /\ response' = IF pending[i].status >= 400 THEN RequestFailed
                 ELSE [kind |-> "data", text |-> body]
  /\ settled' = [await |-> "json", outcome |-> "resolved", status |-> pending[i].status, value |-> body]
  /\ uncaught' = FALSE
  /\ UNCHANGED << form, watched, schema, sdlError, url, sdlPending, pc, events >>

\* await res.json() resolves: setStatus(res.status); setResponse(result)
JsonResolve(i, body) ==
  /\ i \in DOMAIN pending
  /\ pending[i].stage = "json"
  /\ pending' = remove(pending, i)
  /\ status' = pending[i].status
  /\ response' = [kind |-> "data", text |-> body]
  /\ settled' = [await |-> "json", outcome |-> "resolved", status |-> pending[i].status, value |-> body]
  /\ uncaught' = FALSE
  /\ UNCHANGED << form, watched, schema, sdlError, url, sdlPending, pc, events >>

\* await res.json() rejects: the body is not JSON
JsonReject(i, thrown) ==
  /\ i \in DOMAIN pending
  /\ pending[i].stage = "json"
  /\ pending' = remove(pending, i)
  /\ SubmitCatch(thrown)
  /\ settled' = [await |-> "json", outcome |-> "rejected", status |-> pending[i].status, value |-> thrown]
  /\ uncaught' = FALSE
  /\ UNCHANGED << form, watched, schema, sdlError, url, sdlPending, pc, events >>

\* ------------------------------------------------------------------------
\* Schema fetch (fetchSDL)
\* ------------------------------------------------------------------------

\* the catch block of fetchSDL
SdlCatch(thrown) ==
  /\ sdlError' = IF thrown = "Error" THEN "Failed to load documentation" ELSE sdlError
  /\ schema' = NoText

\* await fetch(sdlEndpoint) resolves with res.ok
SdlFetchOk(i) ==
  /\ i \in DOMAIN sdlPending
  /\ sdlPending[i].stage = "fetch"
  /\ sdlPending' = [sdlPending EXCEPT ![i].stage = "text"]
  /\ settled' = [await |-> "sdlFetch", outcome |-> "resolved", status |-> NoStatus, value |-> "ok"]
  /\ uncaught' = FALSE
  /\ UNCHANGED << form, watched, response, status, schema, sdlError, url, pending, pc,
                  events >>

\* await fetch(sdlEndpoint) resolves with !res.ok: throw new Error("Failed to fetch SDL")
SdlFetchNotOk(i) ==
  /\ i \in DOMAIN sdlPending
  /\ sdlPending[i].stage = "fetch"
  /\ sdlPending' = remove(sdlPending, i)
  /\ SdlCatch("Error")
  /\ settled' = [await |-> "sdlFetch", outcome |-> "resolved", status |-> NoStatus, value |-> "not ok"]
  /\ uncaught' = FALSE
  /\ UNCHANGED << form, watched, response, status, url, pending, pc, events >>

\* await fetch(sdlEndpoint) rejects
SdlFetchReject(i, thrown) ==
  /\ i \in DOMAIN sdlPending
  /\ sdlPending[i].stage = "fetch"
  /\ sdlPending' = remove(sdlPending, i)
  /\ SdlCatch(thrown)
  /\ settled' = [await |-> "sdlFetch", outcome |-> "rejected", status |-> NoStatus, value |-> thrown]
  /\ uncaught' = FALSE
  /\ UNCHANGED << form, watched, response, status, url, pending, pc, events >>

\* variant of SdlTextResolve: setSDLError(null) is missing
SdlTextResolveKeepError(i, text) ==
  /\ i \in DOMAIN sdlPending
  /\ sdlPending[i].stage = "text"
  /\ sdlPending' = remove(sdlPending, i)
  /\ schema' = text
  /\ settled' = [await |-> "sdlText", outcome |-> "resolved", status |-> NoStatus, value |-> text]
  /\ uncaught' = FALSE
  /\ UNCHANGED << form, watched, response, status, sdlError, url, pending, pc, events >>

\* await res.text() resolves: setSchema(sdlData); setSDLError(null)
SdlTextResolve(i, text) ==
  /\ i \in DOMAIN sdlPending
  /\ sdlPending[i].stage = "text"
  /\ sdlPending' = remove(sdlPending, i)
  /\ schema' = text
  /\ sdlError' = NoText
  /\ settled' = [await |-> "sdlText", outcome |-> "resolved", status |-> NoStatus, value |-> text]
  /\ uncaught' = FALSE
  /\ UNCHANGED << form, watched, response, status, url, pending, pc, events >>

\* await res.text() rejects
SdlTextReject(i, thrown) ==
  /\ i \in DOMAIN sdlPending
  /\ sdlPending[i].stage = "text"
  /\ sdlPending' = remove(sdlPending, i)
  /\ SdlCatch(thrown)
  /\ settled' = [await |-> "sdlText", outcome |-> "rejected", status |-> NoStatus, value |-> thrown]
  /\ uncaught' = FALSE
  /\ UNCHANGED << form, watched, response, status, url, pending, pc, events >>

\* ------------------------------------------------------------------------
\* Specification
\* ------------------------------------------------------------------------

Next ==
  \/ MountEffects
  \/ Render
  \/ \E v \in EndpointInputs : TypeEndpoint(v)
  \/ \E v \in SdlInputs : TypeSdl(v)
  \/ \E v \in QueryInputs : TypeQuery(v)
  \/ \E v \in VariablesInputs : TypeVariables(v)
  \/ \E i \in DOMAIN form.headers, pair \in HeaderInputs : TypeHeader(i, pair)
  \/ handleAddHeader
  \/ \E index \in DOMAIN form.headers : handleRemoveHeader(index)
  \/ handleEncodeURL
  \/ handleFormSubmit
  \/ \E i \in 1..MaxPending, code \in Statuses : FetchResolve(i, code)
  \/ \E i \in 1..MaxPending, thrown \in Thrown : FetchReject(i, thrown)
  \/ \E i \in 1..MaxPending, body \in Bodies : JsonResolve(i, body)
  \/ \E i \in 1..MaxPending, thrown \in Thrown : JsonReject(i, thrown)
  \/ \E i \in 1..MaxSdlPending : SdlFetchOk(i)
  \/ \E i \in 1..MaxSdlPending : SdlFetchNotOk(i)
  \/ \E i \in 1..MaxSdlPending, thrown \in Thrown : SdlFetchReject(i, thrown)
  \/ \E i \in 1..MaxSdlPending, text \in SchemaTexts : SdlTextResolve(i, text)
  \/ \E i \in 1..MaxSdlPending, thrown \in Thrown : SdlTextReject(i, thrown)

Spec == Init /\ [][Next]_vars

\* ------------------------------------------------------------------------
\* Properties
\* ------------------------------------------------------------------------

\* the pairs of the rows handleEncodeURL puts into the URL (key && value)
ActivePairs(hs) ==
  { [key |-> hs[i].key, value |-> hs[i].value] :
      i \in { j \in DOMAIN hs : Truthy(hs[j].key) /\ Truthy(hs[j].value) } }

\* the two path segments after /GRAPHQL/ as the decode effect reads them, decoded
Segments(location) ==
  LET parts == SplitOn(location.tail, 47)
      endpointSegment == convertFromBase64(parts[1])
      bodySegment == convertFromBase64(IF Len(parts) >= 2 THEN parts[2] ELSE Undef)
  IN [endpoint |-> endpointSegment, body |-> bodySegment,
      json |-> JsonParse(bodySegment.val)]

\* the decode effect has run and the user has done nothing since
JustMounted == pc # "mounting" /\ events = 0

\* C1: round trip. For every request state with a non-empty endpoint, valid-JSON
\* variables and at least one active header, the form mounted at the URL that
\* committing the state produces has the state's endpoint, query, variables and set
\* of active header pairs.
C1_RoundTrip ==
  \A s \in SharedStates :
    ( /\ Truthy(s.endpointValue)
      /\ JsonParse(s.variablesValue).ok
      /\ ActivePairs(s.headersValue) # {}
      /\ url = newUrl(s)
      /\ JustMounted )
    => ( /\ form.endpoint = s.endpointValue
         /\ form.query = s.queryValue
         /\ form.variables = s.variablesValue
         /\ ActivePairs(form.headers) = ActivePairs(s.headersValue) )

\* the mount step in which the decode effect ran to its end on an encoded URL
DecodeStep == pc = "mounting" /\ pc' = "ready" /\ url.marker

\* the reconciliation the claim C2 describes: each pair is matched against the list
\* as it is when the pair is processed
RECURSIVE ReconcileInTurn(_, _)
ReconcileInTurn(list, pairs) ==
  IF Len(pairs) = 0 THEN list
  ELSE
    LET Has(i) == list[i].key = pairs[1].key
        index == IF \E i \in DOMAIN list : Has(i)
                 THEN CHOOSE i \in DOMAIN list : Has(i) /\ \A k \in 1..(i - 1) : ~Has(k)
                 ELSE 0
    IN ReconcileInTurn(
         IF index > 0 THEN [list EXCEPT ![index] = pairs[1]] ELSE Append(list, pairs[1]),
         Tail(pairs))

\* C2 as stated: reconciliation processes the incoming pairs in order; a pair whose key
\* a row of the header list has gives its value to the leftmost such row, any other
\* pair appends one row; all other rows keep position and content.
C2_ReconcileInTurn ==
  [][DecodeStep => form'.headers = ReconcileInTurn(form.headers, searchParams(url.search))]_vars

\* C2 as amended: the rows a pair is matched against are the rows the list had before
\* reconciliation began. Row i of the old list gets the last incoming pair of its key
\* if it is the leftmost row of that key, and is unchanged otherwise; the pairs whose
\* key no old row has are appended in order, one row each, also when two of them have
\* the same key.
C2_ReconcileAgainstOldRows ==
  [][DecodeStep =>
      LET old == form.headers
          pairs == searchParams(url.search)
          Leftmost(i) == \A k \in 1..(i - 1) : old[k].key # old[i].key
          Hits(i) == { j \in DOMAIN pairs : pairs[j].key = old[i].key }
          Last(S) == CHOOSE j \in S : \A k \in S : k <= j
          Fresh(pair) == \A i \in DOMAIN old : old[i].key # pair.key
      IN /\ Len(form'.headers) >= Len(old)
         /\ \A i \in DOMAIN old :
              form'.headers[i] = IF Leftmost(i) /\ Hits(i) # {}
                                 THEN pairs[Last(Hits(i))] ELSE old[i]
         /\ SubSeq(form'.headers, Len(old) + 1, Len(form'.headers)) = SelectSeq(pairs, Fresh)
    ]_vars

\* C2 witness: mounted at ...?=2&B=1, the default row (empty key) took the value 2 in
\* place and a row B=1 was appended
C2_Witness ==
  /\ pc = "ready"
  /\ form.headers = << [key |-> << >>, value |-> str_2], [key |-> str_B, value |-> str_1] >>

\* C3: the header list gets shorter only by handleRemoveHeader; in particular the
\* reconciliation of the decode effect leaves at least as many rows as there were.
C3_RowsOnlyRemovedByUser ==
  [][Len(form'.headers) < Len(form.headers)
       => \E index \in DOMAIN form.headers : handleRemoveHeader(index)]_vars

\* C3 witness: the form was mounted at a URL with header pairs, reconciliation made the
\* list longer, and the user then removed a row
C3_Witness ==
  /\ pc = "ready"
  /\ Len(searchParams(url.search)) = 2
  /\ form.endpoint = str_ab /\ form.query = Undef
  /\ Len(form.headers) = 1

\* C4: no schema fetch is issued for an effective SDL endpoint that is empty,
\* "undefined?sdl" or "?sdl".
C4_GuardedSchemaFetch ==
  \A i \in DOMAIN sdlPending :
    sdlPending[i].endpoint \notin
      { << >>,
        << 117, 110, 100, 101, 102, 105, 110, 101, 100, 63, 115, 100, 108 >>,
        << 63, 115, 100, 108 >> }

\* C4 witness: the user emptied the endpoint field, the effects have run, the effective
\* SDL endpoint is "?sdl"
C4_Witness ==
  /\ pc = "ready"
  /\ events > 0
  /\ Watch(form) = watched
  /\ form.endpoint = << >>
  /\ watched.sdlEndpoint = << 63, 115, 100, 108 >>

\* C5: when fetch resolved and res.json() resolved, the result is the status of the
\* response and the parsed body, whatever the status.
C5_StatusTransparency ==
  (settled.await = "json" /\ settled.outcome = "resolved")
    => (status = settled.status /\ response = [kind |-> "data", text |-> settled.value])

\* C5 witness: a response of status 404 with a JSON body has been recorded
C5_Witness ==
  /\ settled.await = "json" /\ settled.outcome = "resolved"
  /\ settled.status = 404
  /\ status = 404 /\ response.kind = "data"

\* C6: when fetch or res.json() rejects, whatever the value thrown, the result is
\* status 500 and the payload { error: "Request failed" }.
C6_FailureCollapse ==
  (settled.await \in {"fetch", "json"} /\ settled.outcome = "rejected")
    => (status = 500 /\ response = RequestFailed)

\* C7: mounted at a URL whose endpoint or body segment is not base64, or whose body is
\* not JSON, the form does not fail: it is up, at its defaults until the user acts.
C7_MalformedUrlIgnored ==
  ( /\ url.marker
    /\ pc # "mounting"
    /\ (~Segments(url).endpoint.ok \/ ~Segments(url).body.ok \/ ~Segments(url).json.ok) )
  => ( /\ pc = "ready"
       /\ events = 0 =>
            /\ form.endpoint = Undef /\ form.query = Undef /\ form.variables = Undef
            /\ form.headers = defaultValues.headers )

\* C8: after the decode effect, either endpoint, query and variables all hold what the
\* URL carries, or none of them left its default.
C8_AllOrNothing ==
  (url.marker /\ JustMounted)
  => \/ /\ Segments(url).endpoint.ok /\ Segments(url).body.ok /\ Segments(url).json.ok
        /\ ~PropertyThrows(Segments(url).json.val)
        /\ form.endpoint = Segments(url).endpoint.val
        /\ form.query = Property(Segments(url).json.val, name_query)
        /\ form.variables = Property(Segments(url).json.val, name_variables)
     \/ form.endpoint = Undef /\ form.query = Undef /\ form.variables = Undef

\* C9: a value the user typed into the SDL field is changed only by the user typing
\* into the SDL field again, not by a change of the endpoint field.
C9_ExplicitSdlKept ==
  [][(form.sdlEndpoint \in (SdlInputs \ { << >> }) /\ form'.sdlEndpoint # form.sdlEndpoint)
       => \E v \in SdlInputs : TypeSdl(v)]_vars

\* C10: while the effects of the first render, the decode among them, have not run,
\* nothing navigates: the URL the page was opened at is not replaced.
C10_NoEncodeBeforeDecode ==
  [][pc = "mounting" => url' = url]_vars

\* C10 witness: after the decode effect, a commit has navigated to a URL built from the
\* form
C10_Witness ==
  /\ pc = "ready"
  /\ url \notin InitialUrls
  /\ url = newUrl(watched)

\* a continuation of fetchSDL call i ran to its end and changed schema or sdlError
SdlApplied(i) ==
  /\ i \in DOMAIN sdlPending
  /\ sdlPending' = remove(sdlPending, i)
  /\ (schema' # schema \/ sdlError' # sdlError)

\* C11: with several schema fetches in flight, a result changes schema or sdlError only
\* if it is the result of the fetch issued last; the result of an earlier fetch that
\* settles late is dropped.
C11_OnlyLatestSchemaApplied ==
  [][\A i \in DOMAIN sdlPending : SdlApplied(i) => sdlPending[i].latest]_vars

SdlFailed ==
  /\ settled.await \in {"sdlFetch", "sdlText"}
  /\ (settled.outcome = "rejected" \/ settled.value = "not ok")

\* C13: when a schema fetch fails, by a response that is not OK or by anything thrown,
\* fetchSDL ends with sdlError = "Failed to load documentation" and schema empty, and
\* nothing is left uncaught.
C13_SchemaFailureReported ==
  SdlFailed => (sdlError = "Failed to load documentation" /\ schema = NoText /\ ~uncaught)

\* C14: the URL changes only in a step of handleEncodeURL (the blur of the endpoint,
\* query or variables field, or handleApplyHeader); typing into a field, adding or
\* removing a header row, submitting, the effects of the mount and the completion of
\* a fetch leave it as it is.
C14_UrlOnlyByCommit ==
  [][url' # url => handleEncodeURL]_vars

\* C14 witness: a commit navigated to a new URL, and a submission made after it was
\* answered without another navigation
C14_Witness ==
  /\ url \notin InitialUrls
  /\ url = newUrl(watched)
  /\ settled.await = "json" /\ settled.outcome = "resolved"

\* C15: a submission while the endpoint or the query is empty calls handleFormSubmit
\* not at all: a request is issued only from a form whose endpoint and query are both
\* non-empty, and it carries them.
C15_NoRequestWithoutEndpointAndQuery ==
  [][Len(pending') > Len(pending)
       => /\ Truthy(form.endpoint) /\ Truthy(form.query)
          /\ pending'[Len(pending')].endpoint = form.endpoint
          /\ pending'[Len(pending')].query = form.query]_vars

\* C15 witness: mounted at a URL that carries the endpoint "ab" and no query, the user
\* pressed submit (the one event that leaves every field as it was) and no request is
\* in flight
C15_Witness ==
  /\ pc = "ready"
  /\ url = [marker |-> TRUE, tail |-> << 89, 87, 73, 61, 47, 101, 51, 48, 61 >>,
            search |-> << >>]
  /\ events = 1
  /\ Watch(form) = watched
  /\ form = [endpoint |-> str_ab, sdlEndpoint |-> str_ab \o SdlSuffix, query |-> Undef,
             variables |-> Undef, headers |-> defaultValues.headers]
  /\ pending = << >>
  /\ response = NoResponse /\ status = NoStatus

\* a variables text that is not empty and is not JSON
NotJson(text) == Truthy(text) /\ ~JsonParse(text).ok

\* C16: a variables text that is not JSON is refused at submission and nowhere else.
\* The decode effect takes it from the URL into the form; a commit that has it raises
\* no error it would not raise with the variables left blank; a submission with it
\* issues no request and records status 500 with { error: "Request failed" }; a
\* submission with blank variables sends the empty object.
C16_VariablesCheckedAtSubmit ==
  [][ /\ (DecodeStep /\ Segments(url).json.ok /\ ~PropertyThrows(Segments(url).json.val)
            /\ NotJson(Property(Segments(url).json.val, name_variables)))
          => form'.variables = Property(Segments(url).json.val, name_variables)
      /\ (handleEncodeURL /\ NotJson(watched.variablesValue) /\ uncaught')
          => EncodeThrows([watched EXCEPT !.variablesValue = << >>])
      /\ (handleFormSubmit /\ Valid(form) /\ NotJson(form.variables))
          => (pending' = pending /\ status' = 500 /\ response' = RequestFailed)
      /\ (handleFormSubmit /\ Valid(form) /\ ~Truthy(form.variables))
          => pending'[Len(pending')].variables = [kind |-> "object", members |-> << >>]
    ]_vars

\* the pairs of a query string, as a set
PairSet(pairs) == { pairs[i] : i \in DOMAIN pairs }

\* C17: the rows whose key and value are both non-empty are the rows sent as request
\* headers and the rows written into the query string of the URL, the same rows for
\* both; where two such rows have the same key the request carries one of them.
C17_SameActiveRows ==
  [][ /\ Len(pending') > Len(pending)
          => LET sent == pending'[Len(pending')].headers
                 active == ActivePairs(form.headers)
             IN /\ sent \subseteq active
                /\ { p.key : p \in sent } = { p.key : p \in active }
      /\ url' # url
          => PairSet(searchParams(url'.search)) = ActivePairs(watched.headersValue)
    ]_vars

\* C18: mounted at the URL that committing a state with endpoint E and query Q
\* produced, once the effects and the re-renders they cause are done, the form is up
\* with endpoint E and query Q and the effective SDL endpoint is E followed by "?sdl".
C18_MountedFromCommit ==
  \A s \in SharedStates :
    ( /\ url = newUrl(s)
      /\ JustMounted
      /\ (pc = "crashed" \/ Watch(form) = watched) )
    => ( /\ pc = "ready"
         /\ form.endpoint = s.endpointValue
         /\ form.query = s.queryValue
         /\ watched.sdlEndpoint = s.endpointValue \o SdlSuffix )

\* C19: the decode effect runs with the effects of the first render and never again.
\* Once they have run, the component is not back before them, and endpoint, query,
\* variables and the header list change only by the user's own edit of that field:
\* no re-render, commit, submission or completion of a fetch sets them from the URL
\* or reconciles the headers again.
C19_DecodeOnlyAtMount ==
  [][ /\ pc' = "mounting" => pc = "mounting"
      /\ pc # "mounting" =>
           /\ form'.endpoint # form.endpoint => \E v \in EndpointInputs : TypeEndpoint(v)
           /\ form'.query # form.query => \E v \in QueryInputs : TypeQuery(v)
           /\ form'.variables # form.variables => \E v \in VariablesInputs : TypeVariables(v)
           /\ form'.headers # form.headers =>
                \/ \E i \in DOMAIN form.headers, pair \in HeaderInputs : TypeHeader(i, pair)
                \/ handleAddHeader
                \/ \E index \in DOMAIN form.headers : handleRemoveHeader(index)
    ]_vars

\* C19 witness: mounted at an encoded URL, the user typed another query; after the
\* re-renders the field holds what was typed, not what the URL carries
C19_Witness ==
  /\ pc = "ready"
  /\ url \in InitialUrls /\ url.marker
  /\ events > 0
  /\ Watch(form) = watched
  /\ form.endpoint = Segments(url).endpoint.val
  /\ form.query = str_zhe
  /\ Property(Segments(url).json.val, name_query) = str_q

\* the form store and the watched values one re-render later, the effects of that
\* render included
RenderOnce(s) ==
  LET w == Watch(s.form)
  IN [form |-> IF w.endpointValue # s.watched.endpointValue
               THEN SdlDeriveEffect(w.endpointValue, s.form)
               ELSE s.form,
      watched |-> w]

\* nothing is left to re-render
Quiescent(s) == Watch(s.form) = s.watched

\* C20: the effects feed no loop. A re-render leaves the form quiescent or one more
\* re-render away from it, so the chain started by the mount or by one edit ends after
\* at most two re-renders; a change of the effective SDL endpoint issues one schema
\* fetch, for the new value, when the value passes the guard and none when it does
\* not, and no fetch is issued without such a change; a quiescent form stays as it
\* is, with no fetch and no navigation but the user's commit, until the user acts.
C20_EffectsSettle ==
  [][ /\ (pc = "ready" /\ watched' # watched)
          => LET next == [form |-> form', watched |-> watched']
             IN /\ next = RenderOnce([form |-> form, watched |-> watched])
                /\ (Quiescent(next) \/ Quiescent(RenderOnce(next)))
      /\ watched'.sdlEndpoint # watched.sdlEndpoint
          => IF SdlFetchGuard(watched'.sdlEndpoint)
             THEN /\ Len(sdlPending') = Len(sdlPending) + 1
                  /\ sdlPending'[Len(sdlPending')].endpoint = watched'.sdlEndpoint
                  /\ sdlPending'[Len(sdlPending')].stage = "fetch"
             ELSE sdlPending' = sdlPending
      /\ Len(sdlPending') > Len(sdlPending) => watched'.sdlEndpoint # watched.sdlEndpoint
      /\ (pc = "ready" /\ Watch(form) = watched /\ events' = events)
          => /\ form' = form
             /\ Len(sdlPending') <= Len(sdlPending)
             /\ url' # url => handleEncodeURL
    ]_vars

\* C20 witness: on the plain page the user typed "s" into the SDL field and then "ab"
\* into the endpoint field; the second edit took two re-renders (the derive effect
\* wrote "ab?sdl" into the SDL field, then the fetch effect saw it) and issued one
\* fetch, after the one of "s"
C20_Witness ==
  /\ pc = "ready"
  /\ url = PlainPage
  /\ events = 2
  /\ Watch(form) = watched
  /\ form.endpoint = str_ab /\ form.sdlEndpoint = str_ab \o SdlSuffix
  /\ Len(sdlPending) = 2
  /\ sdlPending[1].endpoint = str_s
  /\ sdlPending[2].endpoint = str_ab \o SdlSuffix /\ sdlPending[2].latest

\* C21: the result of a submission is dropped when the next submission starts: the
\* step that issues a request leaves status and response empty, so that no earlier
\* result is held while the request is pending.
C21_ResultDroppedAtNextSubmit ==
  [][Len(pending') > Len(pending) => (status' = NoStatus /\ response' = NoResponse)]_vars

====
